---- MODULE Spec2Model ----
(***************************************************************************)
(* Model of src/lib/ai/engine-stream-bridge.ts: the SSE frame decoder      *)
(* (streamGoalEvents) and the event translator (createEngineStream and     *)
(* handleEvent), composed as a producer and a consumer of a ReadableStream *)
(* of decoded records, and submitGoal up to the outcome of its request.    *)
(*                                                                         *)
(* Text is modelled as a sequence of symbols.  A symbol is a piece of text *)
(* that no transport chunk cuts: the newline, the two line prefixes, an    *)
(* event name, a data text.  The transport cuts the symbol sequence at any *)
(* symbol boundary, so a cut may fall inside a line, between the two       *)
(* newlines of a separator, or anywhere else between two symbols.          *)
(***************************************************************************)
EXTENDS Integers, Sequences, FiniteSets, TLC

\* Bound: the number of SSE frames the engine sends on one stream.
MaxFrames == 3

(***************************************************************************)
(* Symbols of the wire text                                                *)
(***************************************************************************)
NL == "\n"
EVENT_PREFIX == "event: "
DATA_PREFIX == "data: "

Whitespace == {NL, " "}

\* Data texts the engine sends in the model; J_BAD is not JSON.
J_EMPTY == "{}"
J_NULL == "null"
J_BAD == "{not json}"
J_RESPONSE == "{'output':'Hello'}"
J_THINKING == "{'text':'hmm'}"
J_GOAL == "{'tasks':2,'completed':2,'failed':0}"
J_ERROR == "{'error':'boom'}"
J_TASK == "{'task':{'title':'T'}}"
J_NUMBER == "5"
J_STRING == "'s'"
J_ARRAY == "[]"
J_WRONG == "{'output':0,'text':7,'agentId':null,'task':7,'error':false}"

(***************************************************************************)
(* JSON values: an object is a map from field names to values, a missing   *)
(* field reads as undefined; null has no fields and reading one throws.    *)
(* A number, a string and an array have none of the fields the translator  *)
(* reads, and reading one gives undefined.  A field value is written as    *)
(* its text: 'Hello' as "Hello", 7 as "7", false as "false".               *)
(***************************************************************************)
Undefined == "undefined"

\* The value null of a field.
Null == "null"

\* The values if (content) takes as false: "", 0, false, null, undefined.
Falsy == {"", "0", "false", Null, Undefined}

FieldNames ==
  {"agentId", "text", "content", "output", "task", "description", "taskId",
   "error", "message", "tasks", "completed", "failed"}

\* data.task is an object of its own: absent, or with optional title and id.
NoTask == [present |-> FALSE, title |-> Undefined, id |-> Undefined]

NoFields == [f \in FieldNames |-> IF f = "task" THEN NoTask ELSE Undefined]

JObject(fields) == [kind |-> "object", fields |-> fields]

JNull == [kind |-> "null", fields |-> NoFields]

\* A top-level number, string or array.
JOther(kind) == [kind |-> kind, fields |-> NoFields]

\* JSON.parse: the value of a data text, or a thrown SyntaxError.
JSONParse(text) ==
  CASE text = J_EMPTY -> [ok |-> TRUE, value |-> JObject(NoFields)]
    [] text = J_NULL -> [ok |-> TRUE, value |-> JNull]
    [] text = J_RESPONSE ->
         [ok |-> TRUE, value |-> JObject([NoFields EXCEPT !["output"] = "Hello"])]
    [] text = J_THINKING ->
         [ok |-> TRUE, value |-> JObject([NoFields EXCEPT !["text"] = "hmm"])]
    [] text = J_GOAL ->
         [ok |-> TRUE,
          value |-> JObject([NoFields EXCEPT !["tasks"] = "2",
                                             !["completed"] = "2",
                                             !["failed"] = "0"])]
    [] text = J_ERROR ->
         [ok |-> TRUE, value |-> JObject([NoFields EXCEPT !["error"] = "boom"])]
    [] text = J_TASK ->
         [ok |-> TRUE,
          value |-> JObject([NoFields EXCEPT
                               !["task"] = [NoTask EXCEPT !.present = TRUE,
                                                         !.title = "T"]])]
    [] text = J_NUMBER -> [ok |-> TRUE, value |-> JOther("number")]
    [] text = J_STRING -> [ok |-> TRUE, value |-> JOther("string")]
    [] text = J_ARRAY -> [ok |-> TRUE, value |-> JOther("array")]
    [] text = J_WRONG ->
         [ok |-> TRUE,
          value |-> JObject([NoFields EXCEPT
                               !["output"] = "0",
                               !["text"] = "7",
                               !["agentId"] = Null,
                               !["task"] = [NoTask EXCEPT !.present = TRUE],
                               !["error"] = "false"])]
    [] OTHER -> [ok |-> FALSE, value |-> JNull]

\* a ?? b
Coalesce(a, b) == IF a \in {Undefined, Null} THEN b ELSE a

\* task?.field
OptionalProp(task, field) == IF task.present THEN task[field] ELSE Undefined

(***************************************************************************)
(* The engine's wire format: "event: <type>\ndata: <json>\n\n".  A frame   *)
(* kind with event = "" has no event line.                                 *)
(***************************************************************************)
Frame(name, json) == [event |-> name, data |-> json]

EncodeFrame(f) ==
  (IF f.event = "" THEN <<>> ELSE <<EVENT_PREFIX, f.event, NL>>)
    \o <<DATA_PREFIX, f.data, NL, NL>>

RECURSIVE EncodeFrames(_)
EncodeFrames(fs) ==
  IF fs = <<>> THEN <<>> ELSE EncodeFrame(Head(fs)) \o EncodeFrames(Tail(fs))

\* The frames the engine sends under Spec: every kind of record the
\* translator distinguishes, the terminal frame, and a payload of null.
FrameKinds ==
  {Frame("agent:response", J_RESPONSE),
   Frame("agent:thinking", J_THINKING),
   Frame("goal:completed", J_GOAL),
   Frame("agent:error", J_ERROR),
   Frame("task:created", J_TASK),
   Frame("done", J_EMPTY),
   Frame("goal:completed", J_NULL)}

\* The frames the engine sends under SpecDecoder: two plain frames, the
\* control frames, and frames whose data is not JSON.
DecoderFrameKinds ==
  {Frame("agent:response", J_RESPONSE),
   Frame("agent:thinking", J_THINKING),
   Frame("heartbeat", J_EMPTY),
   Frame("connected", J_EMPTY),
   Frame("done", J_EMPTY),
   Frame("agent:response", J_BAD),
   Frame("done", J_BAD)}

RECURSIVE SeqsUpTo(_, _)
SeqsUpTo(S, n) ==
  IF n = 0 THEN {<<>>}
  ELSE LET shorter == SeqsUpTo(S, n - 1)
       IN  shorter \cup {Append(s, x) : s \in shorter, x \in S}

(***************************************************************************)
(* String operations of the decoder                                        *)
(***************************************************************************)
\* s.split(sep) for a separator of Len(sep) symbols: the pieces between the
\* non-overlapping occurrences of sep, found left to right.
RECURSIVE SplitFrom(_, _, _, _, _)
SplitFrom(s, sep, i, start, acc) ==
  IF i > Len(s) THEN Append(acc, SubSeq(s, start, Len(s)))
  ELSE IF i + Len(sep) - 1 <= Len(s) /\ SubSeq(s, i, i + Len(sep) - 1) = sep
       THEN SplitFrom(s, sep, i + Len(sep), i + Len(sep),
                      Append(acc, SubSeq(s, start, i - 1)))
       ELSE SplitFrom(s, sep, i + 1, start, acc)

Split(s, sep) == SplitFrom(s, sep, 1, 1, <<>>)

\* const frames = buffer.split("\n\n"); buffer = frames.pop() ?? "":
\* the complete frames, and the text kept for the next read.
CompleteFrames(pieces) == SubSeq(pieces, 1, Len(pieces) - 1)

\* Mutant: the text after the last separator is thrown away.
FramesPopDropsRest(pieces) == <<>>

FramesPop(pieces) == pieces[Len(pieces)]

\* !frame.trim()
IsBlank(frame) == \A i \in 1..Len(frame) : frame[i] \in Whitespace

\* line.startsWith(prefix)
StartsWith(line, prefix) == Len(line) >= 1 /\ line[1] = prefix

\* line.slice(7).trim() / line.slice(6): the text after the prefix symbol
\* (a name symbol holds no white space, so trim() leaves it as it is).
SliceAfterPrefix(line) == IF Len(line) >= 2 THEN line[2] ELSE ""

\* The loop over frame.split("\n"): the last event line and the last data
\* line win; the defaults are "message" and "{}".
RECURSIVE ParseLines(_, _, _, _)
ParseLines(lines, i, eventType, eventData) ==
  IF i > Len(lines) THEN [eventType |-> eventType, eventData |-> eventData]
  ELSE IF StartsWith(lines[i], EVENT_PREFIX)
       THEN ParseLines(lines, i + 1, SliceAfterPrefix(lines[i]), eventData)
       ELSE IF StartsWith(lines[i], DATA_PREFIX)
            THEN ParseLines(lines, i + 1, eventType, SliceAfterPrefix(lines[i]))
            ELSE ParseLines(lines, i + 1, eventType, eventData)

ParseFrame(frame) == ParseLines(Split(frame, <<NL>>), 1, "message", J_EMPTY)

\* Mutant: connection events are not skipped.
IsSkippedHeartbeatOnly(eventType) == eventType = "heartbeat"

\* Skip heartbeats and connection events.
IsSkipped(eventType) == eventType = "heartbeat" \/ eventType = "connected"

\* Mutant: no frame is terminal.
IsTerminalNever(eventType) == FALSE

\* Close on terminal events.
IsTerminal(eventType) == eventType = "done"

(***************************************************************************)
(* The record stream (ReadableStream<EngineSSEEvent>) and its reader.      *)
(* A stream value s holds the controller's state, its queue, and the state *)
(* of the one read request of createEngineStream:                          *)
(*   "none"     no read is outstanding                                     *)
(*   "pending"  reader.read() is waiting                                   *)
(*   "value"    reader.read() resolved with the record in cur              *)
(*   "done"     reader.read() resolved with done                           *)
(*   "error"    reader.read() rejected                                     *)
(***************************************************************************)
NoRecord == [event |-> "", data |-> JNull]

CanCloseOrEnqueue(s) == s.state = "readable" /\ ~s.closeRequested

\* Mutant: a record is queued in front of the records waiting.
ControllerEnqueueInFront(s, rec) ==
  IF s.read = "pending"
  THEN [s EXCEPT !.read = "value", !.cur = rec]
  ELSE [s EXCEPT !.queue = <<rec>> \o @]

\* controller.enqueue(rec); the caller checks CanCloseOrEnqueue (it throws
\* otherwise).  A waiting read takes the record, else it is queued.
ControllerEnqueue(s, rec) ==
  IF s.read = "pending"
  THEN [s EXCEPT !.read = "value", !.cur = rec]
  ELSE [s EXCEPT !.queue = Append(@, rec)]

\* controller.close(); the caller checks CanCloseOrEnqueue.
ControllerClose(s) ==
  IF s.queue # <<>>
  THEN [s EXCEPT !.closeRequested = TRUE]
  ELSE [s EXCEPT !.closeRequested = TRUE,
                 !.state = "closed",
                 !.read = IF @ = "pending" THEN "done" ELSE @]

\* controller.error(e): nothing unless the stream is readable; the queue is
\* reset and a waiting read is rejected.
ControllerError(s) ==
  IF s.state # "readable" THEN s
  ELSE [s EXCEPT !.state = "errored",
                 !.queue = <<>>,
                 !.read = IF @ = "pending" THEN "error" ELSE @]

\* reader.read() of createEngineStream.
ReaderRead(s) ==
  IF s.state = "errored" THEN [s EXCEPT !.read = "error", !.cur = NoRecord]
  ELSE IF s.queue # <<>>
       THEN [s EXCEPT !.read = "value",
                      !.cur = Head(s.queue),
                      !.queue = Tail(@),
                      !.state = IF s.closeRequested /\ Len(s.queue) = 1
                                THEN "closed" ELSE @]
       ELSE IF s.state = "closed"
            THEN [s EXCEPT !.read = "done", !.cur = NoRecord]
            ELSE [s EXCEPT !.read = "pending", !.cur = NoRecord]

(***************************************************************************)
(* The decoder's loop over the complete frames of one read                 *)
(***************************************************************************)
\* for (const frame of frames) { ... } from frame i on.  s is the record
\* stream, ys the records enqueued so far.  Both JSON.parse and
\* controller.enqueue are inside the try whose catch skips the frame.
\* returned is TRUE when a terminal frame made start() return; a
\* controller.close() that throws there goes to catch (err), which calls
\* controller.error(err).
\* Mutant: a SyntaxError of JSON.parse is not caught inside the loop and
\* reaches catch (err), which errors the stream.
TryEnqueueRaises(eventType, eventData, s, ys) ==
  LET parsed == JSONParse(eventData)
      rec == [event |-> eventType, data |-> parsed.value]
  IN  IF ~parsed.ok
      THEN [stream |-> ControllerError(s), yielded |-> ys]
      ELSE IF CanCloseOrEnqueue(s)
           THEN [stream |-> ControllerEnqueue(s, rec), yielded |-> Append(ys, rec)]
           ELSE [stream |-> s, yielded |-> ys]

\* try { parsed = JSON.parse(eventData); controller.enqueue(...) } catch {}
\* on the stream s with the records ys enqueued so far.
TryEnqueue(eventType, eventData, s, ys) ==
  LET parsed == JSONParse(eventData)
      rec == [event |-> eventType, data |-> parsed.value]
  IN  IF parsed.ok /\ CanCloseOrEnqueue(s)
      THEN [stream |-> ControllerEnqueue(s, rec), yielded |-> Append(ys, rec)]
      ELSE [stream |-> s, yielded |-> ys]

RECURSIVE ProcessFrames(_, _, _, _)
ProcessFrames(frames, i, s, ys) ==
  IF i > Len(frames) THEN [stream |-> s, yielded |-> ys, returned |-> FALSE]
  ELSE IF IsBlank(frames[i]) THEN ProcessFrames(frames, i + 1, s, ys)
  ELSE LET p == ParseFrame(frames[i])
           e == TryEnqueue(p.eventType, p.eventData, s, ys)
       IN  IF IsSkipped(p.eventType) THEN ProcessFrames(frames, i + 1, s, ys)
           ELSE IF IsTerminal(p.eventType)
                THEN [stream |-> IF CanCloseOrEnqueue(e.stream)
                                 THEN ControllerClose(e.stream)
                                 ELSE ControllerError(e.stream),
                      yielded |-> e.yielded,
                      returned |-> TRUE]
                ELSE ProcessFrames(frames, i + 1, e.stream, e.yielded)

\* Mutant: the close of the finally block closes an errored stream too.
FinallyCloseForces(s) ==
  IF s.state = "closed" THEN s
  ELSE [s EXCEPT !.closeRequested = TRUE,
                 !.state = IF s.queue = <<>> THEN "closed" ELSE "readable",
                 !.read = IF @ \in {"pending", "error"} /\ s.queue = <<>>
                          THEN "done" ELSE @]

\* finally { ...; try { controller.close() } catch { /* already closed */ } }
FinallyClose(s) == IF CanCloseOrEnqueue(s) THEN ControllerClose(s) ELSE s

(***************************************************************************)
(* The translator.  A translator value t holds activeTextId, the next      *)
(* fresh identifier of generateUUID, and the chunks written to the writer. *)
(***************************************************************************)
NoId == 0

Write(t, chunk) == [t EXCEPT !.out = Append(@, chunk)]

\* Mutant: a span is opened without looking at activeTextId.
EnsureTextStartedAlways(t) ==
  Write([t EXCEPT !.activeTextId = t.nextId, !.nextId = @ + 1],
        [type |-> "text-start", id |-> t.nextId])

\* ensureTextStarted(); the id it returns is the activeTextId of the result.
EnsureTextStarted(t) ==
  IF t.activeTextId = NoId
  THEN Write([t EXCEPT !.activeTextId = t.nextId, !.nextId = @ + 1],
             [type |-> "text-start", id |-> t.nextId])
  ELSE t

\* Mutant: text-end is written but activeTextId is not cleared.
FinishTextKeepsId(t) ==
  IF t.activeTextId # NoId
  THEN Write(t, [type |-> "text-end", id |-> t.activeTextId])
  ELSE t

FinishText(t) ==
  IF t.activeTextId # NoId
  THEN [Write(t, [type |-> "text-end", id |-> t.activeTextId])
          EXCEPT !.activeTextId = NoId]
  ELSE t

\* Mutant: the open text part is not closed on the way out.
FinallySkipsFinishText(t) == t

\* createEngineStream's finally block, after reader.releaseLock().
Finally(t) == FinishText(t)

Returns(t) == [tr |-> t, threw |-> FALSE]

\* A TypeError from reading a property of null.
Throws(t) == [tr |-> t, threw |-> TRUE]

\* case "agent:thinking"
HandleThinking(data, t) ==
  LET t1 == FinishText(t)
      id == t1.nextId
      t2 == [t1 EXCEPT !.nextId = @ + 1]
      agentId == Coalesce(data.fields["agentId"], "agent")
      content == Coalesce(data.fields["text"],
                   Coalesce(data.fields["content"], <<agentId, " is thinking...">>))
  IN  IF data.kind = "null" THEN Throws(t2)
      ELSE Returns(Write(Write(Write(t2,
             [type |-> "reasoning-start", id |-> id]),
             [type |-> "reasoning-delta", id |-> id, delta |-> content]),
             [type |-> "reasoning-end", id |-> id]))

\* Mutant: the span is opened before the content is looked at.
HandleResponseAlwaysOpens(data, t) ==
  LET content == Coalesce(data.fields["output"],
                   Coalesce(data.fields["text"],
                     Coalesce(data.fields["content"], "")))
      t1 == EnsureTextStarted(t)
  IN  IF data.kind = "null" THEN Throws(t)
      ELSE IF content \notin Falsy
           THEN Returns(Write(t1, [type |-> "text-delta", id |-> t1.activeTextId,
                                   delta |-> <<content, "\n\n">>]))
           ELSE Returns(t1)

\* case "agent:response"
HandleResponse(data, t) ==
  LET content == Coalesce(data.fields["output"],
                   Coalesce(data.fields["text"],
                     Coalesce(data.fields["content"], "")))
      t1 == EnsureTextStarted(t)
  IN  IF data.kind = "null" THEN Throws(t)
      ELSE IF content \notin Falsy
           THEN Returns(Write(t1, [type |-> "text-delta", id |-> t1.activeTextId,
                                   delta |-> <<content, "\n\n">>]))
           ELSE Returns(t)

\* case "task:created", "task:started", "task:completed", "task:failed"
HandleTask(type, data, t) ==
  LET task == data.fields["task"]
      text ==
        CASE type = "task:created" ->
               <<"Task created: ",
                 Coalesce(OptionalProp(task, "title"),
                   Coalesce(data.fields["description"],
                     Coalesce(OptionalProp(task, "id"), "")))>>
          [] type = "task:started" ->
               <<"Task ", Coalesce(data.fields["taskId"], ""), " assigned to agent">>
          [] type = "task:completed" ->
               <<"Task completed: ",
                 Coalesce(OptionalProp(task, "title"),
                   Coalesce(OptionalProp(task, "id"), ""))>>
          [] type = "task:failed" ->
               <<"Task failed: ", Coalesce(data.fields["error"], "unknown error")>>
  IN  IF data.kind = "null" THEN Throws(t)
      ELSE Returns(Write(t, [type |-> "data-appendMessage", data |-> text]))

\* case "goal:completed"
HandleGoalCompleted(data, t) ==
  LET tasks == Coalesce(data.fields["tasks"], "0")
      completed == Coalesce(data.fields["completed"], "0")
      failed == Coalesce(data.fields["failed"], "0")
      t1 == EnsureTextStarted(t)
      t2 == Write(t1, [type |-> "text-delta", id |-> t1.activeTextId,
                       delta |-> <<"\n\n---\nGoal completed (", completed, "/",
                                   tasks, " tasks, ", failed, " failed)\n">>])
      t3 == FinishText(t2)
  IN  IF data.kind = "null" THEN Throws(t)
      ELSE Returns(Write(t3, [type |-> "finish", finishReason |-> "stop"]))

\* case "agent:error", "loop:error"
HandleError(data, t) ==
  LET t1 == FinishText(t)
      errorText == Coalesce(data.fields["error"],
                     Coalesce(data.fields["message"], "Engine error"))
  IN  IF data.kind = "null" THEN Throws(t1)
      ELSE Returns(Write(t1, [type |-> "error", errorText |-> errorText]))

TaskEvents == {"task:created", "task:started", "task:completed", "task:failed"}

\* Mutant: a name outside the switch is reported as an engine error.
handleEventReportsUnknown(event, t) ==
  LET type == event.event
      data == event.data
  IN  CASE type = "agent:thinking" -> HandleThinking(data, t)
        [] type = "agent:response" -> HandleResponse(data, t)
        [] type \in TaskEvents -> HandleTask(type, data, t)
        [] type = "goal:completed" -> HandleGoalCompleted(data, t)
        [] type \in {"agent:error", "loop:error"} -> HandleError(data, t)
        [] type \in {"loop:started", "loop:tick", "loop:stopped",
                     "task:assigned", "goal:created"} -> Returns(t)
        [] OTHER -> Returns(Write(t, [type |-> "error", errorText |-> type]))

handleEvent(event, t) ==
  LET type == event.event
      data == event.data
  IN  CASE type = "agent:thinking" -> HandleThinking(data, t)
        [] type = "agent:response" -> HandleResponse(data, t)
        [] type \in TaskEvents -> HandleTask(type, data, t)
        [] type = "goal:completed" -> HandleGoalCompleted(data, t)
        [] type \in {"agent:error", "loop:error"} -> HandleError(data, t)
        [] type \in {"loop:started", "loop:tick", "loop:stopped",
                     "task:assigned", "goal:created"} -> Returns(t)
        [] OTHER -> Returns(t)

(***************************************************************************)
(* State                                                                   *)
(***************************************************************************)
VARIABLES
  engineUrl,   \* ENGINE_URL is configured
  frames,      \* the frames the engine sends on this stream
  wire,        \* their text, the body of the response
  pos,         \* symbols of wire the transport has delivered
  buffer,      \* streamGoalEvents: buffer
  decPc,       \* start(): "idle", "fetching", "reading", "ended"
  decEnd,      \* how start() ended: "none", "terminal", "eof", "read",
               \* "fetch", "status", "nobody"
  transport,   \* res.body's reader: "none", "locked", "released"
  fetches,     \* calls of fetch
  stream,      \* the record stream and createEngineStream's read request
  yielded,     \* every record enqueued so far
  pc,          \* createEngineStream: "init", "awaitRead", "returned", "rejected"
  exit,        \* how it ended: "none", "config", "done", "readError", "throw"
  tr,          \* the translator: activeTextId, nextId, out
  translated,  \* the records handleEvent was called with
  submit       \* submitGoal: pc is "idle", "fetching", "resolved", "failed"
               \* or "rejected", fetches counts its calls of fetch

vars == <<engineUrl, frames, wire, pos, buffer, decPc, decEnd, transport,
          fetches, stream, yielded, pc, exit, tr, translated, submit>>

\* The state before the first call, the engine about to send fs.
InitSending(fs) ==
  /\ engineUrl \in BOOLEAN
  /\ frames = fs
  /\ wire = EncodeFrames(frames)
  /\ pos = 0
  /\ buffer = <<>>
  /\ decPc = "idle"
  /\ decEnd = "none"
  /\ transport = "none"
  /\ fetches = 0
  /\ stream = [state |-> "readable", closeRequested |-> FALSE, queue |-> <<>>,
               read |-> "none", cur |-> NoRecord]
  /\ yielded = <<>>
  /\ pc = "init"
  /\ exit = "none"
  /\ tr = [activeTextId |-> NoId, nextId |-> 1, out |-> <<>>]
  /\ translated = <<>>
  /\ submit = [pc |-> "idle", fetches |-> 0, exit |-> "none"]

InitWith(kinds) == \E fs \in SeqsUpTo(kinds, MaxFrames) : InitSending(fs)

Init == InitWith(FrameKinds)

InitDecoder == InitWith(DecoderFrameKinds)

\* Mutant: the check of ENGINE_URL never fires.
EngineUrlMissingNever(url) == FALSE

\* if (!ENGINE_URL)
EngineUrlMissing(url) == ~url

(***************************************************************************)
(* createEngineStream up to its first await: streamGoalEvents throws when  *)
(* ENGINE_URL is not set; otherwise the stream is constructed, start()     *)
(* runs up to its await of fetch, and the loop's first reader.read() waits.*)
(***************************************************************************)
CreateEngineStream ==
  /\ pc = "init"
  /\ IF EngineUrlMissing(engineUrl)
     THEN /\ pc' = "rejected"
          /\ exit' = "config"
          /\ UNCHANGED <<decPc, fetches, stream>>
     ELSE /\ pc' = "awaitRead"
          /\ decPc' = "fetching"
          /\ fetches' = fetches + 1
          /\ stream' = ReaderRead(stream)
          /\ UNCHANGED exit
  /\ UNCHANGED <<engineUrl, frames, wire, pos, buffer, decEnd, transport,
                 yielded, tr, translated,
                 submit>>

(***************************************************************************)
(* start(): the fetch settles                                              *)
(***************************************************************************)
\* res.ok with a body: the transport reader is acquired.
FetchOk ==
  /\ decPc = "fetching"
  /\ decPc' = "reading"
  /\ transport' = "locked"
  /\ UNCHANGED <<engineUrl, frames, wire, pos, buffer, decEnd, fetches,
                 stream, yielded, pc, exit, tr, translated,
                 submit>>

\* fetch rejects, !res.ok, or !res.body: controller.error(...); return.
FetchFails ==
  /\ decPc = "fetching"
  /\ \E why \in {"fetch", "status", "nobody"} : decEnd' = why
  /\ stream' = ControllerError(stream)
  /\ decPc' = "ended"
  /\ UNCHANGED <<engineUrl, frames, wire, pos, buffer, transport, fetches,
                 yielded, pc, exit, tr, translated,
                 submit>>

(***************************************************************************)
(* start(): one turn of the read loop                                      *)
(***************************************************************************)
\* reader.read() delivers the next n symbols of the body.
TransportRead ==
  /\ decPc = "reading"
  /\ \E n \in 1..(Len(wire) - pos) :
       \E pieces \in {Split(buffer \o SubSeq(wire, pos + 1, pos + n), <<NL, NL>>)} :
         \E r \in {ProcessFrames(CompleteFrames(pieces), 1, stream, yielded)} :
           /\ pos' = pos + n
           /\ buffer' = FramesPop(pieces)
           /\ yielded' = r.yielded
           /\ IF r.returned
              THEN /\ stream' = FinallyClose(r.stream)
                   /\ transport' = "released"
                   /\ decPc' = "ended"
                   /\ decEnd' = "terminal"
              ELSE /\ stream' = r.stream
                   /\ UNCHANGED <<transport, decPc, decEnd>>
  /\ UNCHANGED <<engineUrl, frames, wire, fetches, pc, exit, tr, translated,
                 submit>>

\* reader.read() resolves with done: break, then the finally block.
TransportEnd ==
  /\ decPc = "reading"
  /\ pos = Len(wire)
  /\ stream' = FinallyClose(stream)
  /\ transport' = "released"
  /\ decPc' = "ended"
  /\ decEnd' = "eof"
  /\ UNCHANGED <<engineUrl, frames, wire, pos, buffer, fetches, yielded, pc,
                 exit, tr, translated,
                 submit>>

\* reader.read() rejects: controller.error(err), then the finally block.
TransportError ==
  /\ decPc = "reading"
  /\ stream' = FinallyClose(ControllerError(stream))
  /\ transport' = "released"
  /\ decPc' = "ended"
  /\ decEnd' = "read"
  /\ UNCHANGED <<engineUrl, frames, wire, pos, buffer, fetches, yielded, pc,
                 exit, tr, translated,
                 submit>>

(***************************************************************************)
(* createEngineStream: the continuation of await reader.read()             *)
(***************************************************************************)
\* A record was read: handleEvent, then the next reader.read(); when
\* handleEvent throws, the finally block runs and the promise rejects.
TranslateRecord ==
  /\ pc = "awaitRead"
  /\ stream.read = "value"
  /\ translated' = Append(translated, stream.cur)
  /\ LET r == handleEvent(stream.cur, tr)
     IN  IF r.threw
         THEN /\ tr' = Finally(r.tr)
              /\ stream' = [stream EXCEPT !.read = "none", !.cur = NoRecord]
              /\ pc' = "rejected"
              /\ exit' = "throw"
         ELSE /\ tr' = r.tr
              /\ stream' = ReaderRead(stream)
              /\ UNCHANGED <<pc, exit>>
  /\ UNCHANGED <<engineUrl, frames, wire, pos, buffer, decPc, decEnd,
                 transport, fetches, yielded,
                 submit>>

\* done: break; finally { reader.releaseLock(); finishText() }.
StreamDone ==
  /\ pc = "awaitRead"
  /\ stream.read = "done"
  /\ tr' = Finally(tr)
  /\ stream' = [stream EXCEPT !.read = "none"]
  /\ pc' = "returned"
  /\ exit' = "done"
  /\ UNCHANGED <<engineUrl, frames, wire, pos, buffer, decPc, decEnd,
                 transport, fetches, yielded, translated,
                 submit>>

\* reader.read() rejected: the finally block runs and the promise rejects.
StreamError ==
  /\ pc = "awaitRead"
  /\ stream.read = "error"
  /\ tr' = Finally(tr)
  /\ stream' = [stream EXCEPT !.read = "none"]
  /\ pc' = "rejected"
  /\ exit' = "readError"
  /\ UNCHANGED <<engineUrl, frames, wire, pos, buffer, decPc, decEnd,
                 transport, fetches, yielded, translated,
                 submit>>

(***************************************************************************)
(* submitGoal                                                              *)
(***************************************************************************)
\* Up to the await of fetch: throws when ENGINE_URL is not set.
SubmitGoal ==
  /\ submit.pc = "idle"
  /\ IF EngineUrlMissing(engineUrl)
     THEN submit' = [submit EXCEPT !.pc = "rejected", !.exit = "config"]
     ELSE submit' = [submit EXCEPT !.pc = "fetching", !.fetches = @ + 1]
  /\ UNCHANGED <<engineUrl, frames, wire, pos, buffer, decPc, decEnd,
                 transport, fetches, stream, yielded, pc, exit, tr, translated>>

\* res.ok: the goal id of the response is returned.
SubmitOk ==
  /\ submit.pc = "fetching"
  /\ submit' = [submit EXCEPT !.pc = "resolved", !.exit = "goalId"]
  /\ UNCHANGED <<engineUrl, frames, wire, pos, buffer, decPc, decEnd,
                 transport, fetches, stream, yielded, pc, exit, tr, translated>>

\* fetch rejects, or !res.ok: the promise rejects.
SubmitFails ==
  /\ submit.pc = "fetching"
  /\ \E why \in {"fetch", "status"} :
       submit' = [submit EXCEPT !.pc = "rejected", !.exit = why]
  /\ UNCHANGED <<engineUrl, frames, wire, pos, buffer, decPc, decEnd,
                 transport, fetches, stream, yielded, pc, exit, tr, translated>>

Next ==
  \/ CreateEngineStream
  \/ FetchOk
  \/ FetchFails
  \/ TransportRead
  \/ TransportEnd
  \/ TransportError
  \/ TranslateRecord
  \/ StreamDone
  \/ StreamError

Spec == Init /\ [][Next]_vars

SpecDecoder == InitDecoder /\ [][Next]_vars

\* Every event name handleEvent's switch names, a name outside it, the
\* default name of a frame without an event line, and the terminal name.
EventNames ==
  {"agent:thinking", "agent:response", "task:created", "task:started",
   "task:completed", "task:failed", "goal:completed", "agent:error",
   "loop:error", "loop:started", "loop:tick", "loop:stopped",
   "task:assigned", "goal:created", "custom:event", "", "done"}

\* Data texts JSON.parse accepts.
JsonTexts ==
  {J_EMPTY, J_NULL, J_RESPONSE, J_THINKING, J_GOAL, J_ERROR, J_TASK,
   J_NUMBER, J_STRING, J_ARRAY, J_WRONG}

RecordFrameKinds == {Frame(n, j) : n \in EventNames, j \in JsonTexts}

\* SpecRecords: the engine sends one frame of any name and payload, alone
\* or after a response that opens a text span.
InitRecords ==
  \E f \in RecordFrameKinds :
    \E before \in {<<>>, <<Frame("agent:response", J_RESPONSE)>>} :
      InitSending(before \o <<f>>)

SpecRecords == InitRecords /\ [][Next]_vars

\* SpecConfig: a call of submitGoal next to the stream of a goal.
ConfigFrameKinds ==
  {Frame("agent:response", J_RESPONSE), Frame("done", J_EMPTY)}

InitConfig == InitWith(ConfigFrameKinds)

NextConfig == Next \/ SubmitGoal \/ SubmitOk \/ SubmitFails

SpecConfig == InitConfig /\ [][NextConfig]_vars

(***************************************************************************)
(* Properties.  What the engine sent is read from frames, what the program *)
(* did from its state.                                                     *)
(***************************************************************************)
\* The record a frame stands for.
RecordOf(f) == [event |-> f.event, data |-> JSONParse(f.data).value]

RecordsOf(fs) == [i \in 1..Len(fs) |-> RecordOf(fs[i])]

HasJson(f) == JSONParse(f.data).ok

ControlNames == {"heartbeat", "connected", "done"}

\* A complete frame with JSON data and a name other than the control names.
IsPlain(f) == HasJson(f) /\ f.event \notin ControlNames

AllPlain(fs) == \A i \in 1..Len(fs) : IsPlain(fs[i])

\* The offset in the wire text at which frame k ends.
EndOffset(fs, k) == Len(EncodeFrames(SubSeq(fs, 1, k)))

\* The number of frames delivered whole within the first p symbols.
Delivered(fs, p) == Cardinality({k \in 1..Len(fs) : EndOffset(fs, k) <= p})

Connected == decPc \in {"reading", "ended"} /\ decEnd \notin {"fetch", "status", "nobody"}

TransportFailed == decEnd \in {"fetch", "status", "nobody", "read"}

Ended == pc \in {"returned", "rejected"}

\* C1: when every frame is a complete frame with JSON data and a name other
\* than heartbeat, connected and done, the records enqueued are, at every
\* moment and for every cutting of the text into chunks, exactly the records
\* of the frames delivered whole so far, in frame order (a frame cut by a
\* chunk boundary is kept in the buffer and yields nothing yet); and when
\* the stream has ended normally createEngineStream has read one record per
\* frame, in frame order.
C1_OneRecordPerFrame ==
  (Connected /\ AllPlain(frames)) =>
    /\ yielded = RecordsOf(SubSeq(frames, 1, Delivered(frames, pos)))
    /\ exit = "done" => translated = RecordsOf(frames)

\* A chunk boundary has fallen between the two newlines that end the second
\* of three plain frames; the first frame has been yielded, the second not.
C1_Witness ==
  /\ AllPlain(frames)
  /\ Len(frames) = MaxFrames
  /\ decPc = "reading"
  /\ Len(yielded) = 1
  /\ pos = EndOffset(frames, 2) - 1
  /\ buffer = SubSeq(wire, EndOffset(frames, 1) + 1, pos)

\* The frames delivered whole so far.
DeliveredFrames == SubSeq(frames, 1, Delivered(frames, pos))

\* The index of the first frame named done, 0 when there is none.
FirstDone(fs) ==
  IF \E i \in 1..Len(fs) : fs[i].event = "done"
  THEN CHOOSE i \in 1..Len(fs) :
         /\ fs[i].event = "done"
         /\ \A j \in 1..(i - 1) : fs[j].event # "done"
  ELSE 0

\* The frames up to and including the first frame named done.
UpToDone(fs) == IF FirstDone(fs) = 0 THEN fs ELSE SubSeq(fs, 1, FirstDone(fs))

IsControlSkipped(f) == f.event \in {"heartbeat", "connected"}

NotControlSkipped(f) == ~IsControlSkipped(f)

IsYieldable(f) == HasJson(f) /\ ~IsControlSkipped(f)

\* C5: once a frame named done has been delivered whole, start() has
\* returned and released the transport, the record sequence is closed (not
\* errored), and the records enqueued are those of the frames up to and
\* including the done frame: no frame after it, in the same chunk or later,
\* yields a record, and createEngineStream returns having read those records.
C5_NothingAfterDone ==
  (Connected /\ FirstDone(DeliveredFrames) > 0) =>
    /\ decEnd = "terminal"
    /\ transport = "released"
    /\ stream.closeRequested
    /\ stream.state # "errored"
    /\ yielded = RecordsOf(SelectSeq(UpToDone(DeliveredFrames), IsYieldable))
    /\ exit # "readError"
    /\ exit = "done" => translated = yielded

\* A plain frame, a done frame and another plain frame arrived, the last one
\* delivered too; createEngineStream returned with two records enqueued.
C5_Witness ==
  /\ Len(frames) = MaxFrames
  /\ IsPlain(frames[1])
  /\ frames[2] = Frame("done", J_EMPTY)
  /\ IsPlain(frames[3])
  /\ pos = Len(wire)
  /\ pc = "returned"
  /\ Len(yielded) = 2

\* C6: no record named heartbeat or connected is ever enqueued, and the
\* records enqueued are, at every moment, those a decoder that knows nothing
\* of these names yields for the delivered frames with the heartbeat and
\* connected frames taken out.
C6_ControlFramesInvisible ==
  /\ \A i \in 1..Len(yielded) : yielded[i].event \notin {"heartbeat", "connected"}
  /\ Connected =>
       yielded = RecordsOf(SelectSeq(
                   UpToDone(SelectSeq(DeliveredFrames, NotControlSkipped)), HasJson))

\* connected, a plain frame and heartbeat were delivered; createEngineStream
\* returned having translated the one record.
C6_Witness ==
  /\ Len(frames) = MaxFrames
  /\ frames[1].event = "connected"
  /\ IsPlain(frames[2])
  /\ frames[3].event = "heartbeat"
  /\ pc = "returned"
  /\ translated = <<RecordOf(frames[2])>>

\* The records a decoder yields for the frames fs when every frame has JSON
\* data or is dropped alone.
ReferenceRecords(fs) == RecordsOf(SelectSeq(UpToDone(fs), IsYieldable))

IsMalformedNotDone(f) == ~HasJson(f) /\ f.event # "done"

NotMalformedNotDone(f) == ~IsMalformedNotDone(f)

\* C7 as stated: a frame whose data is not JSON closes nothing and changes
\* nothing: the records enqueued are those of the delivered frames with
\* every such frame taken out.
C7_Original ==
  Connected => yielded = ReferenceRecords(SelectSeq(DeliveredFrames, HasJson))

\* C7 amended: a frame not named done whose data is not JSON yields no
\* record, does not error or close the record sequence, and the records
\* enqueued are those of the delivered frames with every such frame taken
\* out; a frame named done closes the sequence whatever its data.
C7_MalformedDropped ==
  /\ stream.state = "errored" => TransportFailed
  /\ stream.closeRequested => decEnd \in {"terminal", "eof"}
  /\ Connected =>
       yielded = ReferenceRecords(SelectSeq(DeliveredFrames, NotMalformedNotDone))

\* A plain frame, a frame with data that is not JSON and another plain frame
\* were delivered; createEngineStream returned having translated both.
C7_Witness ==
  /\ Len(frames) = MaxFrames
  /\ IsPlain(frames[1])
  /\ IsMalformedNotDone(frames[2])
  /\ IsPlain(frames[3])
  /\ pc = "returned"
  /\ translated = <<RecordOf(frames[1]), RecordOf(frames[3])>>

(***************************************************************************)
(* The chunks written                                                      *)
(***************************************************************************)
Out == tr.out

IsChunk(i, type) == Out[i].type = type

\* The places of the chunks of a type that carry the id x.
Places(type, x) == {i \in 1..Len(Out) : IsChunk(i, type) /\ Out[i].id = x}

Ids == 1..(tr.nextId - 1)

\* text-start chunks less text-end chunks among the first k chunks.
OpenSpans(k) ==
  Cardinality({i \in 1..k : IsChunk(i, "text-start")})
    - Cardinality({i \in 1..k : IsChunk(i, "text-end")})

\* The ids whose text-start has no text-end after it.
UnmatchedIds ==
  {x \in Ids : \E i \in Places("text-start", x) :
                 \A j \in Places("text-end", x) : j < i}

\* C2: after every chunk written the text-start chunks outnumber the
\* text-end chunks by 0 or 1; in every state they do so by 1 exactly when
\* activeTextId is set, and then the one unmatched text-start carries
\* activeTextId.
C2_AtMostOneOpenSpan ==
  /\ \A k \in 0..Len(Out) : OpenSpans(k) \in {0, 1}
  /\ (OpenSpans(Len(Out)) = 1) <=> (tr.activeTextId # NoId)
  /\ UnmatchedIds = IF tr.activeTextId # NoId THEN {tr.activeTextId} ELSE {}

\* A second text span is open after the first one was closed.
C2_Witness ==
  /\ tr.activeTextId # NoId
  /\ \E x \in Ids : x # tr.activeTextId /\ Places("text-end", x) # {}
  /\ pc = "awaitRead"

\* C3: no id ever has two text-end chunks or a text-end without an earlier
\* text-start, and once createEngineStream has returned or rejected, by any
\* path, every text-start is followed by the text-end of its id and
\* activeTextId is cleared.
C3_EverySpanClosedOnce ==
  /\ \A x \in Ids :
       /\ Cardinality(Places("text-end", x)) <= 1
       /\ Cardinality(Places("text-start", x)) <= 1
       /\ \A j \in Places("text-end", x) : \E i \in Places("text-start", x) : i < j
  /\ Ended =>
       /\ tr.activeTextId = NoId
       /\ \A x \in Ids :
            \A i \in Places("text-start", x) : \E j \in Places("text-end", x) : i < j

\* handleEvent threw while a text span was open, and the finally block wrote
\* its text-end before createEngineStream rejected.
C3_Witness ==
  /\ exit = "throw"
  /\ Len(Out) = 3
  /\ IsChunk(1, "text-start")
  /\ IsChunk(2, "text-delta")
  /\ IsChunk(3, "text-end")
  /\ Out[3].id = Out[1].id

\* C4 as stated: once createEngineStream has stopped reading the record
\* sequence, by any path, the transport reader is not held any more.
C4_TransportReleased == Ended => transport # "locked"

\* C8: fetch is called at most once, and after a transport failure (fetch
\* rejects, a non-success status, no body, a read error) the record stream
\* is errored, never closed; createEngineStream has a read that is resolved
\* with a record read earlier or rejected, never one that waits or reports
\* done, and it has not returned: it ends rejected.
C8_FailureRejects ==
  /\ fetches <= 1
  /\ TransportFailed =>
       /\ fetches = 1
       /\ stream.state = "errored"
       /\ pc = "awaitRead" => stream.read \in {"value", "error"}
       /\ pc # "returned"
       /\ exit \in {"none", "readError", "throw"}

\* The transport failed in the middle of the stream, after a record had been
\* translated, and createEngineStream rejected with the read error.
C8_Witness ==
  /\ decEnd = "read"
  /\ pos > 0
  /\ pos < Len(wire)
  /\ Len(translated) >= 1
  /\ pc = "rejected"
  /\ exit = "readError"

SpanBreakers == {"reasoning-start", "text-start", "text-end", "error", "finish"}

\* C9: every text-delta has exactly one text-start of its id, written before
\* it with no reasoning-start, text-start, text-end, error or finish between
\* the two; its id has at most one text-end, written after it; two
\* text-delta chunks written next to each other carry the same id; and once
\* createEngineStream has ended the text-end of its id follows it.
C9_ResponseRunOneSpan ==
  \A i \in 1..Len(Out) :
    IsChunk(i, "text-delta") =>
      /\ Cardinality(Places("text-start", Out[i].id)) = 1
      /\ \E s \in Places("text-start", Out[i].id) :
           /\ s < i
           /\ \A k \in (s + 1)..(i - 1) : Out[k].type \notin SpanBreakers
      /\ Cardinality(Places("text-end", Out[i].id)) <= 1
      /\ \A e \in Places("text-end", Out[i].id) :
           /\ e > i
           /\ \A k \in (i + 1)..(e - 1) : Out[k].type \notin SpanBreakers
      /\ (i < Len(Out) /\ IsChunk(i + 1, "text-delta")) => Out[i + 1].id = Out[i].id
      /\ Ended => Places("text-end", Out[i].id) # {}

\* Two agent:response records and then agent:thinking were translated: one
\* text-start, two text-delta chunks of its id, its text-end, then the
\* reasoning chunks.
C9_Witness ==
  /\ Len(translated) = 3
  /\ translated[1].event = "agent:response"
  /\ translated[2].event = "agent:response"
  /\ translated[3].event = "agent:thinking"
  /\ Len(Out) = 7
  /\ IsChunk(1, "text-start")
  /\ IsChunk(2, "text-delta")
  /\ IsChunk(3, "text-delta")
  /\ IsChunk(4, "text-end")
  /\ Ended

\* The chunks a step writes.
Written == SubSeq(tr.out', Len(tr.out) + 1, Len(tr.out'))

\* C10 as stated: a step that translates a goal:completed record writes a
\* text-start (only when no span was open), then a text-delta and a text-end
\* of the open span's id, then finish with reason stop, nothing else, and
\* leaves no span open; a step that translates another record, or none,
\* writes no finish.
C10_GoalCompletedFinishes ==
  [][IF translated' # translated /\ stream.cur.event = "goal:completed"
     THEN LET w == Written
              k == Len(w)
          IN  /\ k = IF tr.activeTextId = NoId THEN 4 ELSE 3
              /\ k = 4 => w[1].type = "text-start" /\ w[1].id = tr.nextId
              /\ w[k - 2].type = "text-delta"
              /\ w[k - 2].id = IF tr.activeTextId = NoId THEN tr.nextId
                               ELSE tr.activeTextId
              /\ w[k - 1].type = "text-end"
              /\ w[k - 1].id = w[k - 2].id
              /\ w[k].type = "finish"
              /\ w[k].finishReason = "stop"
              /\ tr.activeTextId' = NoId
     ELSE \A i \in 1..Len(Written) : Written[i].type # "finish"]_vars

(***************************************************************************)
(* The translation of records                                              *)
(***************************************************************************)
\* C11 as stated: handleEvent throws for no record the decoder yields, so
\* createEngineStream rejects only when ENGINE_URL is missing or the
\* transport failed, never out of the translation of a record.
C11_TranslationNeverRaises ==
  /\ exit # "throw"
  /\ pc = "rejected" => ~engineUrl \/ TransportFailed

\* The translator of a call that has written nothing yet.
FreshTranslator == [activeTextId |-> NoId, nextId |-> 1, out |-> <<>>]

\* The translator after the records recs were handled one after the other,
\* each one's chunks written in full before the next is handled; a throw
\* ends it with the finally block.
RECURSIVE Replay(_, _)
Replay(recs, t) ==
  IF recs = <<>> THEN Returns(t)
  ELSE LET r == handleEvent(Head(recs), t)
       IN  IF r.threw THEN Throws(Finally(r.tr)) ELSE Replay(Tail(recs), r.tr)

\* C12: the records handleEvent is called with are the records enqueued, in
\* the order of their enqueueing and without a gap; the record read and the
\* records queued are the next ones of that order; and the chunks written
\* are the chunks of the first translated record, then those of the second,
\* and so on, each record's chunks together, followed by the text-end of
\* the finally block once createEngineStream has ended.
C12_ChunksInRecordOrder ==
  LET n == Len(translated)
      q == Len(stream.queue)
      h == IF stream.read = "value" THEN 1 ELSE 0
      r == Replay(translated, FreshTranslator)
  IN  /\ n + h + q <= Len(yielded)
      /\ translated = SubSeq(yielded, 1, n)
      /\ h = 1 => stream.cur = yielded[n + 1]
      /\ stream.queue = SubSeq(yielded, n + h + 1, n + h + q)
      /\ r.threw <=> exit = "throw"
      /\ tr = IF Ended /\ ~r.threw THEN Finally(r.tr) ELSE r.tr

\* Three records were enqueued while createEngineStream had the first in
\* hand, the other two waiting in the queue; all three were then translated
\* and each wrote its chunks.
C12_Witness ==
  /\ Len(frames) = MaxFrames
  /\ frames[1].event = "agent:thinking"
  /\ frames[2].event = "agent:response"
  /\ frames[3].event = "agent:error"
  /\ translated = RecordsOf(frames)
  /\ Len(Out) = 7
  /\ IsChunk(1, "reasoning-start")
  /\ IsChunk(4, "text-start")
  /\ IsChunk(7, "error")

(***************************************************************************)
(* Configuration                                                           *)
(***************************************************************************)
\* C13: while ENGINE_URL is not set no fetch is ever called, by the stream
\* or by submitGoal; createEngineStream does not get past its first
\* statement and ends rejected with the configuration error, having read
\* and written nothing; submitGoal ends rejected with the same error.
C13_ConfigErrorBeforeRequest ==
  ~engineUrl =>
    /\ fetches = 0
    /\ submit.fetches = 0
    /\ decPc = "idle"
    /\ transport = "none"
    /\ Out = <<>>
    /\ translated = <<>>
    /\ pc \in {"init", "rejected"}
    /\ pc = "rejected" => exit = "config"
    /\ submit.pc \in {"idle", "rejected"}
    /\ submit.pc = "rejected" => submit.exit = "config"

\* Without ENGINE_URL both createEngineStream and submitGoal were called and
\* both rejected with the configuration error, the engine having frames to
\* send.
C13_Witness ==
  /\ ~engineUrl
  /\ frames # <<>>
  /\ pc = "rejected"
  /\ exit = "config"
  /\ submit.pc = "rejected"
  /\ submit.exit = "config"

(***************************************************************************)
(* The end of a goal                                                       *)
(***************************************************************************)
EndsGoal == {"finish", "error"}

\* C14 as stated: a finish chunk and an error chunk are the last chunk
\* written, so finish is written at most once; and once the last record
\* translated has written one of them createEngineStream has ended: it has
\* no read of a further record outstanding and translates none.
C14_StopsAfterFinishOrError ==
  /\ \A i \in 1..Len(Out) : Out[i].type \in EndsGoal => i = Len(Out)
  /\ Cardinality({i \in 1..Len(Out) : IsChunk(i, "finish")}) <= 1
  /\ (Out # <<>> /\ Out[Len(Out)].type \in EndsGoal) =>
       /\ Ended
       /\ stream.read = "none"

(***************************************************************************)
(* The effect of one record.  A step translates a record when it appends   *)
(* to translated: the record is stream.cur, the translator before it is    *)
(* tr, the chunks it writes are Written.                                   *)
(***************************************************************************)
Translating(names) == translated' # translated /\ stream.cur.event \in names

SpanWasOpen == tr.activeTextId # NoId

\* C15 as stated: a step that translates a task:created, task:started,
\* task:completed or task:failed record writes one data-appendMessage chunk
\* and nothing else, and leaves activeTextId and the identifiers as they
\* were.
C15_TaskWritesOneAnnotation ==
  [][Translating(TaskEvents) =>
       /\ Len(Written) = 1
       /\ Written[1].type = "data-appendMessage"
       /\ tr.activeTextId' = tr.activeTextId
       /\ tr.nextId' = tr.nextId]_vars

\* The names handleEvent's switch gives no chunk: the five lifecycle names
\* and every name without a case, among them message and done.
IgnoredNames ==
  {"loop:started", "loop:tick", "loop:stopped", "task:assigned",
   "goal:created", "custom:event", "message", "done"}

\* C16: a step that translates a record of an ignored name writes no chunk,
\* leaves the translator as it was, and goes on to the next read.
C16_IgnoredNamesWriteNothing ==
  [][Translating(IgnoredNames) =>
       /\ Written = <<>>
       /\ tr' = tr
       /\ pc' = "awaitRead"]_vars

\* A response opened a span, then the done record with a null payload was
\* translated: nothing but the response's two chunks is written, the span
\* is still open, and createEngineStream is waiting for its next read.
C16_Witness ==
  /\ Len(translated) = 2
  /\ translated[1].event = "agent:response"
  /\ translated[2] = [event |-> "done", data |-> JNull]
  /\ Len(Out) = 2
  /\ tr.activeTextId = 1
  /\ pc = "awaitRead"

\* The content of a response: data.output ?? data.text ?? data.content ?? "";
\* a payload without these fields, null among them, has none.
ContentOf(rec) ==
  Coalesce(rec.data.fields["output"],
    Coalesce(rec.data.fields["text"],
      Coalesce(rec.data.fields["content"], "")))

HasContent(rec) == rec.data.kind # "null" /\ ContentOf(rec) \notin Falsy

C18_ThinkingWritesReasoningSpan ==
  [][Translating({"agent:thinking"}) =>
       LET w == Written
           k == Len(w)
       IN  /\ k = IF SpanWasOpen THEN 4 ELSE 3
           /\ k = 4 => w[1] = [type |-> "text-end", id |-> tr.activeTextId]
           /\ w[k - 2] = [type |-> "reasoning-start", id |-> tr.nextId]
           /\ w[k - 1].type = "reasoning-delta"
           /\ w[k - 1].id = tr.nextId
           /\ w[k] = [type |-> "reasoning-end", id |-> tr.nextId]
           /\ tr.activeTextId' = NoId
           /\ tr.nextId' = tr.nextId + 1]_vars

\* C19 as stated: a step that translates an agent:error or loop:error record
\* writes the text-end of the span that was open, if any, then one error
\* chunk, no finish and nothing else; it leaves no span open, does not
\* throw, and goes on to the next read.
C19_ErrorWritesOneErrorChunk ==
  [][Translating({"agent:error", "loop:error"}) =>
       LET w == Written
           k == Len(w)
       IN  /\ k = IF SpanWasOpen THEN 2 ELSE 1
           /\ k = 2 => w[1] = [type |-> "text-end", id |-> tr.activeTextId]
           /\ w[k].type = "error"
           /\ tr.activeTextId' = NoId
           /\ exit' # "throw"
           /\ pc' = "awaitRead"
           /\ stream.read' # "none"]_vars

(***************************************************************************)
(* Records and a failing transport                                         *)
(***************************************************************************)
\* C20 as stated: when createEngineStream is rejected with the error of a
\* failed transport read, every record enqueued before has been translated.
C20_NoRecordLostOnReadError ==
  (decEnd = "read" /\ exit = "readError") => translated = yielded
====
